---- MODULE Spec2Model ----
(***************************************************************************)
(* A model of scripts/gemini_headless.py: one run of main() from argument  *)
(* parsing to process exit, with the external world (the file system, the  *)
(* standard input, the `which` lookup and the Gemini CLI) answering        *)
(* nondeterministically.  Text is a sequence of one-character strings (or  *)
(* of whole fixed fragments such as a preamble); an optional value (None   *)
(* in the source) is the empty sequence, a present value v is <<v>>.       *)
(***************************************************************************)
EXTENDS Integers, Sequences, FiniteSets, TLC

VARIABLES
    argv,        \* the command line, as argparse sees it
    pc,          \* position of main()
    prompt,      \* local `prompt` of main: <<>> while unbound, else <<text>>
    model,       \* local `model` of main, then of call_gemini: <<>> is None
    timeout,     \* local `timeout` of main: <<>> before it is assigned
    cmd,         \* local `cmd` of call_gemini
    result,      \* local `result` of main: <<>> before call_gemini returns
    stdout,      \* what the run printed on the output stream
    stderr,      \* what the run printed on the error stream, line by line
    exitStatus,  \* <<>> while running, <<n>> once the process has exited
    procs,       \* the external processes started so far, in order
    fileObs,     \* what open(args.file) found, once observed
    stdinObs,    \* what sys.stdin.read() returned, once observed
    nvmObs,      \* whether the fixed nvm path exists, once observed
    whichObs,    \* how `which gemini` ended, once observed
    cliObs,      \* how the Gemini CLI ended, once observed
    run,         \* 1 for the run, 2 for the same run repeated with one flag flipped
    first,       \* <<>>, or the outcome of run 1 while run 2 executes
    response,    \* input of extract_json_from_response when checked alone
    extracted    \* <<>>, or its return value

vars == <<argv, pc, prompt, model, timeout, cmd, result, stdout, stderr,
          exitStatus, procs, fileObs, stdinObs, nvmObs, whichObs, cliObs,
          run, first, response, extracted>>

----------------------------------------------------------------------------
(* Bounds *)

MaxPrompt == 1
MaxOut == 2
MaxResp == 5

----------------------------------------------------------------------------
(* Text *)

RECURSIVE TextsOf(_, _)
TextsOf(chars, n) ==
    IF n = 0 THEN {<<>>}
    ELSE LET shorter == TextsOf(chars, n - 1)
         IN  shorter \cup {<<c>> \o t : c \in chars, t \in {u \in shorter : Len(u) = n - 1}}

IsSpace(c) == c = " "

RECURSIVE LStrip(_)
LStrip(s) == IF s # <<>> /\ IsSpace(Head(s)) THEN LStrip(Tail(s)) ELSE s

RECURSIVE RStrip(_)
RStrip(s) ==
    IF s # <<>> /\ IsSpace(s[Len(s)]) THEN RStrip(SubSeq(s, 1, Len(s) - 1)) ELSE s

\* Mutant of Strip: only leading white space is removed
Strip_LeftOnly(s) == LStrip(s)

\* str.strip()
Strip(s) == RStrip(LStrip(s))

\* Python truthiness of an optional text, string or integer: None and the
\* empty or zero value are falsy
TruthyText(opt) == opt # <<>> /\ opt[1] # <<>>
TruthyStr(opt) == opt # <<>> /\ opt[1] # ""
TruthyInt(opt) == opt # <<>> /\ opt[1] # 0

----------------------------------------------------------------------------
(* json.loads on the characters the model uses: numbers written with the   *)
(* digit 1, strings, arrays of at most one element (the alphabet has no    *)
(* comma), and white space around values.                                  *)

JsonValue(kind, num, items, text) ==
    [kind |-> kind, num |-> num, items |-> items, text |-> text]

JsonNull == JsonValue("null", 0, <<>>, <<>>)

IsDigit(c) == c = "1"

DigitValue(c) == 1

RECURSIVE SkipSpace(_, _)
SkipSpace(s, i) == IF i <= Len(s) /\ IsSpace(s[i]) THEN SkipSpace(s, i + 1) ELSE i

RECURSIVE ScanNumber(_, _, _)
ScanNumber(s, i, acc) ==
    IF i <= Len(s) /\ IsDigit(s[i])
    THEN ScanNumber(s, i + 1, 10 * acc + DigitValue(s[i]))
    ELSE [ok |-> TRUE, val |-> JsonValue("num", acc, <<>>, <<>>), next |-> i]

RECURSIVE ScanString(_, _, _)
ScanString(s, from, i) ==
    IF i > Len(s) THEN [ok |-> FALSE, val |-> JsonNull, next |-> i]
    ELSE IF s[i] = "\""
         THEN [ok |-> TRUE,
               val |-> JsonValue("str", 0, <<>>, SubSeq(s, from, i - 1)),
               next |-> i + 1]
         ELSE ScanString(s, from, i + 1)

ParseFail(i) == [ok |-> FALSE, val |-> JsonNull, next |-> i]

RECURSIVE ParseValue(_, _)
ParseValue(s, i) ==
    IF i > Len(s) THEN ParseFail(i)
    ELSE IF IsDigit(s[i]) THEN ScanNumber(s, i, 0)
    ELSE IF s[i] = "\"" THEN ScanString(s, i + 1, i + 1)
    ELSE IF s[i] = "["
         THEN LET k == SkipSpace(s, i + 1)
              IN  IF k <= Len(s) /\ s[k] = "]"
                  THEN [ok |-> TRUE, val |-> JsonValue("arr", 0, <<>>, <<>>),
                        next |-> k + 1]
                  ELSE LET r == ParseValue(s, k)
                           e == SkipSpace(s, r.next)
                       IN  IF r.ok /\ e <= Len(s) /\ s[e] = "]"
                           THEN [ok |-> TRUE,
                                 val |-> JsonValue("arr", 0, <<r.val>>, <<>>),
                                 next |-> e + 1]
                           ELSE ParseFail(e)
    ELSE ParseFail(i)

\* json.loads(s): ok is FALSE where the source sees json.JSONDecodeError
JsonLoads(s) ==
    LET r == ParseValue(s, SkipSpace(s, 1))
    IN  IF r.ok /\ SkipSpace(s, r.next) = Len(s) + 1
        THEN [ok |-> TRUE, val |-> r.val]
        ELSE [ok |-> FALSE, val |-> JsonNull]

----------------------------------------------------------------------------
(* extract_json_from_response.  "F" is the opening fence ```json and "E"   *)
(* the bare fence ```; an opening fence also begins with a bare fence.     *)

OpenFence == {"F"}

AnyFence == {"F", "E"}

\* the least index >= i of s holding one of chars, 0 when there is none
RECURSIVE FirstIndex(_, _, _)
FirstIndex(s, i, chars) ==
    IF i > Len(s) THEN 0
    ELSE IF s[i] \in chars THEN i
    ELSE FirstIndex(s, i + 1, chars)

\* re.search(r'```json\s*(.*?)\s*```', response, re.DOTALL): <<>> when there
\* is no match, else <<group(1)>>
JsonBlockSearch(s) ==
    LET open == FirstIndex(s, 1, OpenFence)
        close == IF open = 0 THEN 0 ELSE FirstIndex(s, open + 1, AnyFence)
    IN  IF close = 0 THEN <<>>
        ELSE <<Strip(SubSeq(s, open + 1, close - 1))>>

RawTextFallback(s) == JsonValue("raw_text", 0, <<>>, s)

\* Mutant of extract_json_from_response: the whole text is tried first
extract_json_from_response_WholeFirst(s) ==
    LET json_match == JsonBlockSearch(s)
    IN  IF JsonLoads(s).ok
        THEN JsonLoads(s).val
        ELSE IF json_match # <<>> /\ JsonLoads(json_match[1]).ok
             THEN JsonLoads(json_match[1]).val
             ELSE RawTextFallback(s)

extract_json_from_response(s) ==
    LET json_match == JsonBlockSearch(s)
    IN  IF json_match # <<>> /\ JsonLoads(json_match[1]).ok
        THEN JsonLoads(json_match[1]).val
        ELSE IF JsonLoads(s).ok
             THEN JsonLoads(s).val
             ELSE RawTextFallback(s)

----------------------------------------------------------------------------
(* Module constants and wrap_with_thinking *)

DEFAULT_MODEL == "gemini-3-pro-preview"

NVM_GEMINI == "~/.nvm/versions/node/v22.21.1/bin/gemini"

THINKING_HIGH_PREAMBLE == <<"\n<thinking_mode level=\"HIGH\">...</thinking_mode>\n\n">>

THINKING_LOW_PREAMBLE == <<"\n<thinking_mode level=\"LOW\">...</thinking_mode>\n\n">>

THINKING_SUFFIX == <<"\n\n---\nIMPORTANT: Apply the appropriate level of reasoning depth...\n">>

wrap_with_thinking(p, level) ==
    IF level = "low"
    THEN THINKING_LOW_PREAMBLE \o p
    ELSE THINKING_HIGH_PREAMBLE \o p \o THINKING_SUFFIX

----------------------------------------------------------------------------
(* The command lines and the answers of the outside world *)

PromptChars == {" ", "a"}

PromptTexts == TextsOf(PromptChars, MaxPrompt)

Argvs ==
    [prompt : {<<>>} \cup {<<t>> : t \in PromptTexts},
     file : {<<>>, <<"">>, <<"f">>},
     stdin : BOOLEAN,
     help : {"none", "first", "last"},
     output : {"text", "json", "markdown"},
     extract_json : BOOLEAN,
     think : {<<>>, <<"high">>, <<"low">>},
     model : {<<>>, <<"">>, <<"m">>},
     timeout : {<<>>, <<0>>, <<30>>},
     verbose : BOOLEAN]

\* what open(args.file, 'r') and f.read() can do
FileStates ==
    {[kind |-> k, text |-> <<>>] : k \in {"missing", "unreadable"}}
        \cup {[kind |-> "text", text |-> t] : t \in PromptTexts}

\* how subprocess.run(["which", "gemini"]) can end
WhichOutcomes == {"found", "notfound", "cannot_run"}

WHICH_GEMINI == "/usr/local/bin/gemini"

OutChars == {" ", "1"}

ErrChars == {" ", "e"}

\* the elapsed seconds datetime.now() can measure
Durations == {0, 1}

Captured ==
    {c \in TextsOf(OutChars, MaxOut) \X TextsOf(ErrChars, MaxOut) :
        Len(c[1]) + Len(c[2]) <= MaxOut}

\* how subprocess.run(cmd, input=prompt, ..., timeout=timeout) can end
CliOutcomes ==
    {[kind |-> "exit", rc |-> rc, out |-> c[1], err |-> c[2], elapsed |-> d] :
        rc \in {0, 1}, c \in Captured, d \in Durations}
    \cup {[kind |-> "timeout", rc |-> 0, out |-> <<>>, err |-> <<>>, elapsed |-> d] :
        d \in Durations}
    \cup {[kind |-> "oserror", rc |-> 0, out |-> <<>>,
           err |-> <<"[Errno 2] No such file or directory">>, elapsed |-> d] :
        d \in Durations}

----------------------------------------------------------------------------
(* argparse: parser.parse_args() *)

GivenInputs(a) ==
    (IF a.prompt # <<>> THEN 1 ELSE 0) + (IF a.file # <<>> THEN 1 ELSE 0)
        + (IF a.stdin THEN 1 ELSE 0)

\* -h exits when argparse reaches it; a second input flag is rejected when
\* argparse reaches it; a missing required input only after the whole scan
ParseOutcome(a) ==
    IF a.help = "first" THEN "help"
    ELSE IF GivenInputs(a) > 1 THEN "usage"
    ELSE IF a.help = "last" THEN "help"
    ELSE IF GivenInputs(a) = 0 THEN "usage"
    ELSE "ok"

NoResult ==
    [success |-> FALSE, output |-> <<>>, error |-> <<>>, duration |-> 0,
     extracted_json |-> <<>>]

Printed(fmt, text, record) == [fmt |-> fmt, text |-> text, record |-> record]

\* an exception nobody catches: the interpreter prints the traceback on the
\* error stream and exits with status 1
Uncaught(exc) ==
    /\ stderr' = Append(stderr, <<"Traceback (most recent call last):", exc>>)
    /\ exitStatus' = <<1>>
    /\ pc' = "done"

\* sys.exit(1) after print(msg, file=sys.stderr)
ErrorExit(msg) ==
    /\ stderr' = Append(stderr, msg)
    /\ exitStatus' = <<1>>
    /\ pc' = "done"

ParseArgsHelp ==
    /\ pc = "start"
    /\ ParseOutcome(argv) = "help"
    /\ stdout' = Append(stdout, Printed("help", <<"usage: gemini_headless.py">>, NoResult))
    /\ exitStatus' = <<0>>
    /\ pc' = "done"
    /\ UNCHANGED <<argv, prompt, model, timeout, cmd, result, stderr, procs,
                   fileObs, stdinObs, nvmObs, whichObs, cliObs, run, first,
                   response, extracted>>

ParseArgsError ==
    /\ pc = "start"
    /\ ParseOutcome(argv) = "usage"
    /\ stderr' = Append(stderr, <<"usage: gemini_headless.py", "error:">>)
    /\ exitStatus' = <<2>>
    /\ pc' = "done"
    /\ UNCHANGED <<argv, prompt, model, timeout, cmd, result, stdout, procs,
                   fileObs, stdinObs, nvmObs, whichObs, cliObs, run, first,
                   response, extracted>>

ParseArgsOk ==
    /\ pc = "start"
    /\ ParseOutcome(argv) = "ok"
    /\ pc' = "acquire"
    /\ UNCHANGED <<argv, prompt, model, timeout, cmd, result, stdout, stderr,
                   exitStatus, procs, fileObs, stdinObs, nvmObs, whichObs,
                   cliObs, run, first, response, extracted>>

----------------------------------------------------------------------------
(* main: prompt acquisition and validation *)

AcquireFromPrompt ==
    /\ pc = "acquire"
    /\ TruthyText(argv.prompt)
    /\ prompt' = <<argv.prompt[1]>>
    /\ pc' = "validate"
    /\ UNCHANGED <<argv, model, timeout, cmd, result, stdout, stderr,
                   exitStatus, procs, fileObs, stdinObs, nvmObs, whichObs,
                   cliObs, run, first, response, extracted>>

AcquireFromFile ==
    /\ pc = "acquire"
    /\ ~TruthyText(argv.prompt)
    /\ TruthyStr(argv.file)
    /\ \E f \in FileStates :
        /\ fileObs \in {<<>>, <<f>>}
        /\ fileObs' = <<f>>
        /\ CASE f.kind = "missing" ->
                  /\ ErrorExit(<<"ERROR: File not found: ", argv.file[1]>>)
                  /\ UNCHANGED prompt
             [] f.kind = "unreadable" ->
                  /\ Uncaught("IsADirectoryError")
                  /\ UNCHANGED prompt
             [] OTHER ->
                  /\ prompt' = <<f.text>>
                  /\ pc' = "validate"
                  /\ UNCHANGED <<stderr, exitStatus>>
    /\ UNCHANGED <<argv, model, timeout, cmd, result, stdout, procs, stdinObs,
                   nvmObs, whichObs, cliObs, run, first, response, extracted>>

AcquireFromStdin ==
    /\ pc = "acquire"
    /\ ~TruthyText(argv.prompt)
    /\ ~TruthyStr(argv.file)
    /\ argv.stdin
    /\ \E t \in PromptTexts :
        /\ stdinObs \in {<<>>, <<t>>}
        /\ stdinObs' = <<t>>
        /\ prompt' = <<t>>
    /\ pc' = "validate"
    /\ UNCHANGED <<argv, model, timeout, cmd, result, stdout, stderr,
                   exitStatus, procs, fileObs, nvmObs, whichObs, cliObs, run,
                   first, response, extracted>>

\* no branch of the if/elif chain is taken: `prompt` stays unbound
AcquireNothing ==
    /\ pc = "acquire"
    /\ ~TruthyText(argv.prompt)
    /\ ~TruthyStr(argv.file)
    /\ ~argv.stdin
    /\ pc' = "validate"
    /\ UNCHANGED <<argv, prompt, model, timeout, cmd, result, stdout, stderr,
                   exitStatus, procs, fileObs, stdinObs, nvmObs, whichObs,
                   cliObs, run, first, response, extracted>>

\* Mutant of IsBlank: `not prompt`, without the strip
IsBlank_NoStrip(p) == p = <<>>

\* not prompt.strip()
IsBlank(p) == Strip(p) = <<>>

ValidatePrompt ==
    /\ pc = "validate"
    /\ IF prompt = <<>>
       THEN Uncaught("UnboundLocalError")
       ELSE IF IsBlank(prompt[1])
            THEN ErrorExit(<<"ERROR: Empty prompt">>)
            ELSE /\ pc' = "configure"
                 /\ UNCHANGED <<stderr, exitStatus>>
    /\ UNCHANGED <<argv, prompt, model, timeout, cmd, result, stdout, procs,
                   fileObs, stdinObs, nvmObs, whichObs, cliObs, run, first,
                   response, extracted>>

----------------------------------------------------------------------------
(* main: thinking mode, model and timeout *)

\* timeout = args.timeout or (180 if think_level == "high" else 60), or
\* timeout = args.timeout or 120
MainTimeout(a) ==
    IF TruthyInt(a.timeout) THEN a.timeout[1]
    ELSE IF a.think = <<>> THEN 120
    ELSE IF a.think[1] = "high" THEN 180 ELSE 60

\* The f-string {model or 'default'}
ModelOrDefaultWord(m) == IF TruthyStr(m) THEN m[1] ELSE "default"

AppendAll(log, lines) == log \o lines

ConfigureThinking ==
    /\ pc = "configure"
    /\ LET wrapped == IF argv.think # <<>>
                      THEN wrap_with_thinking(prompt[1], argv.think[1])
                      ELSE prompt[1]
           t == MainTimeout(argv)
           thinkLine == IF argv.think # <<>> /\ argv.verbose
                        THEN << <<"[DEBUG] Thinking mode: ", argv.think[1]>> >>
                        ELSE <<>>
           debugLines == IF argv.verbose
                         THEN << <<"[DEBUG] Model: ", ModelOrDefaultWord(argv.model)>>,
                                 <<"[DEBUG] Timeout: ", ToString(t), "s">>,
                                 <<"[DEBUG] Prompt length: ", ToString(Len(wrapped))>> >>
                         ELSE <<>>
       IN  /\ prompt' = <<wrapped>>
           /\ model' = argv.model
           /\ timeout' = <<t>>
           /\ stderr' = AppendAll(stderr, thinkLine \o debugLines)
    /\ pc' = "call"
    /\ UNCHANGED <<argv, cmd, result, stdout, exitStatus, procs, fileObs,
                   stdinObs, nvmObs, whichObs, cliObs, run, first, response,
                   extracted>>

----------------------------------------------------------------------------
(* call_gemini and get_gemini_command *)

\* model = model or DEFAULT_MODEL
CallModel(m) == IF TruthyStr(m) THEN m[1] ELSE DEFAULT_MODEL

Proc(kind, command, input, limit, started) ==
    [kind |-> kind, cmd |-> command, input |-> input, timeout |-> limit,
     started |-> started]

WhichProc(started) == Proc("which", <<"which", "gemini">>, <<>>, <<>>, started)

\* Mutant of CallGeminiBegin: the debug lines lack file=sys.stderr
CallGeminiBegin_DebugOnStdout ==
    /\ pc = "call"
    /\ stdout' = IF argv.verbose
                 THEN AppendAll(stdout,
                        << Printed("text",
                                   <<"[DEBUG] Prompt length: ", ToString(Len(prompt[1]))>>,
                                   NoResult),
                           Printed("text", <<"[DEBUG] Model: ", CallModel(model)>>,
                                   NoResult) >>)
                 ELSE stdout
    /\ pc' = "resolve"
    /\ UNCHANGED <<argv, prompt, model, timeout, cmd, result, stderr,
                   exitStatus, procs, fileObs, stdinObs, nvmObs, whichObs,
                   cliObs, run, first, response, extracted>>

CallGeminiBegin ==
    /\ pc = "call"
    /\ stderr' = IF argv.verbose
                 THEN AppendAll(stderr,
                        << <<"[DEBUG] Prompt length: ", ToString(Len(prompt[1]))>>,
                           <<"[DEBUG] Model: ", CallModel(model)>> >>)
                 ELSE stderr
    /\ pc' = "resolve"
    /\ UNCHANGED <<argv, prompt, model, timeout, cmd, result, stdout,
                   exitStatus, procs, fileObs, stdinObs, nvmObs, whichObs,
                   cliObs, run, first, response, extracted>>

\* cmd = get_gemini_command(); cmd.extend(["--model", model])
ExtendCmd(prefix) == prefix \o <<"--model", CallModel(model)>>

\* os.path.exists(nvm_gemini) holds
GetGeminiCommandNvm ==
    /\ pc = "resolve"
    /\ nvmObs \in {<<>>, <<TRUE>>}
    /\ nvmObs' = <<TRUE>>
    /\ cmd' = ExtendCmd(<<NVM_GEMINI>>)
    /\ pc' = "run"
    /\ UNCHANGED <<argv, prompt, model, timeout, result, stdout, stderr,
                   exitStatus, procs, fileObs, stdinObs, whichObs, cliObs, run,
                   first, response, extracted>>

\* the fixed path is absent: subprocess.run(["which", "gemini"], ...)
GetGeminiCommandWhich ==
    /\ pc = "resolve"
    /\ nvmObs \in {<<>>, <<FALSE>>}
    /\ nvmObs' = <<FALSE>>
    /\ \E w \in WhichOutcomes :
        /\ whichObs \in {<<>>, <<w>>}
        /\ whichObs' = <<w>>
        /\ CASE w = "found" ->
                  /\ procs' = Append(procs, WhichProc(TRUE))
                  /\ cmd' = ExtendCmd(<<WHICH_GEMINI>>)
                  /\ pc' = "run"
                  /\ UNCHANGED <<stderr, exitStatus>>
             [] w = "notfound" ->
                  /\ procs' = Append(procs, WhichProc(TRUE))
                  /\ cmd' = ExtendCmd(<<"npx", "gemini">>)
                  /\ pc' = "run"
                  /\ UNCHANGED <<stderr, exitStatus>>
             [] OTHER ->
                  \* `which` itself cannot be executed: subprocess.run raises
                  \* outside the try block of call_gemini
                  /\ procs' = Append(procs, WhichProc(FALSE))
                  /\ Uncaught("FileNotFoundError")
                  /\ UNCHANGED cmd
    /\ UNCHANGED <<argv, prompt, model, timeout, result, stdout, fileObs,
                   stdinObs, cliObs, run, first, response, extracted>>

Result(success, output, error, duration) ==
    [success |-> success, output |-> output, error |-> error,
     duration |-> duration, extracted_json |-> <<>>]

\* the dict call_gemini returns for outcome o of subprocess.run under timeout t
CallResult(o, t) ==
    CASE o.kind = "exit" /\ o.rc # 0 -> Result(FALSE, o.out, o.err, o.elapsed)
      [] o.kind = "exit" /\ o.rc = 0 -> Result(TRUE, Strip(o.out), <<>>, o.elapsed)
      [] o.kind = "timeout" ->
            Result(FALSE, <<>>, <<"Timeout after ", ToString(t), " seconds">>, o.elapsed)
      [] OTHER -> Result(FALSE, <<>>, o.err, o.elapsed)

\* Mutant of RunSubprocess: a failed invocation is tried a second time
RunSubprocess_RetryOnce ==
    /\ pc = "run"
    /\ \E o \in CliOutcomes :
        /\ cliObs \in {<<>>, <<o>>}
        /\ cliObs' = <<o>>
        /\ procs' = Append(procs, Proc("cli", cmd, prompt[1], timeout, o.kind # "oserror"))
        /\ result' = <<CallResult(o, timeout[1])>>
        /\ pc' = IF ~CallResult(o, timeout[1]).success
                     /\ \A i \in 1..Len(procs) : procs[i].kind # "cli"
                  THEN "run"
                  ELSE "extract"
    /\ UNCHANGED <<argv, prompt, model, timeout, cmd, stdout, stderr,
                   exitStatus, fileObs, stdinObs, nvmObs, whichObs, run, first,
                   response, extracted>>

RunSubprocess ==
    /\ pc = "run"
    /\ \E o \in CliOutcomes :
        /\ cliObs \in {<<>>, <<o>>}
        /\ cliObs' = <<o>>
        /\ procs' = Append(procs, Proc("cli", cmd, prompt[1], timeout, o.kind # "oserror"))
        /\ result' = <<CallResult(o, timeout[1])>>
    /\ pc' = "extract"
    /\ UNCHANGED <<argv, prompt, model, timeout, cmd, stdout, stderr,
                   exitStatus, fileObs, stdinObs, nvmObs, whichObs, run, first,
                   response, extracted>>

----------------------------------------------------------------------------
(* main: JSON extraction, format_output and exit *)

\* Mutant of AttachExtracted: a response holding no JSON fails the run
AttachExtracted_FailOnFallback(r) ==
    LET e == extract_json_from_response(r.output)
    IN  IF e.kind = "raw_text"
        THEN [r EXCEPT !.success = FALSE, !.error = <<"no JSON in response">>,
                       !.extracted_json = <<e>>]
        ELSE [r EXCEPT !.extracted_json = <<e>>]

\* result["extracted_json"] = extract_json_from_response(result["output"])
AttachExtracted(r) ==
    [r EXCEPT !.extracted_json = <<extract_json_from_response(r.output)>>]

HandleExtraction ==
    /\ pc = "extract"
    /\ result' = IF argv.extract_json /\ result[1].success
                 THEN <<AttachExtracted(result[1])>>
                 ELSE result
    /\ pc' = "render"
    /\ UNCHANGED <<argv, prompt, model, timeout, cmd, stdout, stderr,
                   exitStatus, procs, fileObs, stdinObs, nvmObs, whichObs,
                   cliObs, run, first, response, extracted>>

DurationFooter(r) == <<"\n\n---\n*Duration: ", ToString(r.duration), "s*">>

format_output(r, output_format) ==
    IF output_format = "json" THEN Printed("json", <<>>, r)
    ELSE IF output_format = "markdown"
         THEN IF r.success
              THEN Printed("markdown",
                           <<"## Gemini Response\n\n">> \o r.output \o DurationFooter(r),
                           NoResult)
              ELSE Printed("markdown",
                           <<"## Error\n\n">> \o r.error \o DurationFooter(r),
                           NoResult)
         ELSE IF r.success
              THEN Printed("text", r.output, NoResult)
              ELSE Printed("text", <<"ERROR: ">> \o r.error, NoResult)

\* Mutant of ExitCode: a failed invocation exits with status 2
ExitCode_Two(r) == IF r.success THEN 0 ELSE 2

ExitCode(r) == IF r.success THEN 0 ELSE 1

FormatAndExit ==
    /\ pc = "render"
    /\ stdout' = Append(stdout, format_output(result[1], argv.output))
    /\ exitStatus' = <<ExitCode(result[1])>>
    /\ pc' = "done"
    /\ UNCHANGED <<argv, prompt, model, timeout, cmd, result, stderr, procs,
                   fileObs, stdinObs, nvmObs, whichObs, cliObs, run, first,
                   response, extracted>>

----------------------------------------------------------------------------
(* One run *)

InitWith(commandLines) ==
    /\ argv \in commandLines
    /\ pc = "start"
    /\ prompt = <<>>
    /\ model = <<>>
    /\ timeout = <<>>
    /\ cmd = <<>>
    /\ result = <<>>
    /\ stdout = <<>>
    /\ stderr = <<>>
    /\ exitStatus = <<>>
    /\ procs = <<>>
    /\ fileObs = <<>>
    /\ stdinObs = <<>>
    /\ nvmObs = <<>>
    /\ whichObs = <<>>
    /\ cliObs = <<>>
    /\ run = 1
    /\ first = <<>>
    /\ response = <<>>
    /\ extracted = <<>>

Init == InitWith(Argvs)

Next ==
    \/ ParseArgsHelp
    \/ ParseArgsError
    \/ ParseArgsOk
    \/ AcquireFromPrompt
    \/ AcquireFromFile
    \/ AcquireFromStdin
    \/ AcquireNothing
    \/ ValidatePrompt
    \/ ConfigureThinking
    \/ CallGeminiBegin
    \/ GetGeminiCommandNvm
    \/ GetGeminiCommandWhich
    \/ RunSubprocess
    \/ HandleExtraction
    \/ FormatAndExit

Spec == Init /\ [][Next]_vars

----------------------------------------------------------------------------
(* The same command line run a second time with one flag flipped, against  *)
(* the same outside world: every answer observed in run 1 is given again.  *)

Outcome ==
    [argv |-> argv, result |-> result, stdout |-> stdout, stderr |-> stderr,
     exitStatus |-> exitStatus, procs |-> procs]

RerunWith(flag) ==
    /\ pc = "done"
    /\ run = 1
    /\ first' = <<Outcome>>
    /\ argv' = [argv EXCEPT ![flag] = ~@]
    /\ run' = 2
    /\ pc' = "start"
    /\ prompt' = <<>>
    /\ model' = <<>>
    /\ timeout' = <<>>
    /\ cmd' = <<>>
    /\ result' = <<>>
    /\ stdout' = <<>>
    /\ stderr' = <<>>
    /\ exitStatus' = <<>>
    /\ procs' = <<>>
    /\ UNCHANGED <<fileObs, stdinObs, nvmObs, whichObs, cliObs, response, extracted>>

RerunFlipVerbose == RerunWith("verbose")

RerunFlipExtractJson == RerunWith("extract_json")

NextPair ==
    \/ Next
    \/ RerunFlipVerbose
    \/ RerunFlipExtractJson

\* the command lines that leave the model and the timeout to their defaults:
\* the two flags flipped touch neither
PairArgvs == {a \in Argvs : a.model = <<>> /\ a.timeout = <<>>}

InitPair == InitWith(PairArgvs)

PairSpec == InitPair /\ [][NextPair]_vars

----------------------------------------------------------------------------
(* extract_json_from_response on its own, over every bounded response *)

RespChars == {" ", "1", "[", "]", "\"", "F", "E"}

IdleArgv ==
    [prompt |-> <<>>, file |-> <<>>, stdin |-> FALSE, help |-> "none",
     output |-> "text", extract_json |-> FALSE, think |-> <<>>, model |-> <<>>,
     timeout |-> <<>>, verbose |-> FALSE]

InitExtract ==
    /\ response \in TextsOf(RespChars, MaxResp)
    /\ extracted = <<>>
    /\ argv = IdleArgv
    /\ pc = "idle"
    /\ prompt = <<>>
    /\ model = <<>>
    /\ timeout = <<>>
    /\ cmd = <<>>
    /\ result = <<>>
    /\ stdout = <<>>
    /\ stderr = <<>>
    /\ exitStatus = <<>>
    /\ procs = <<>>
    /\ fileObs = <<>>
    /\ stdinObs = <<>>
    /\ nvmObs = <<>>
    /\ whichObs = <<>>
    /\ cliObs = <<>>
    /\ run = 1
    /\ first = <<>>

ExtractCall ==
    /\ pc = "idle"
    /\ extracted = <<>>
    /\ extracted' = <<extract_json_from_response(response)>>
    /\ UNCHANGED <<argv, pc, prompt, model, timeout, cmd, result, stdout,
                   stderr, exitStatus, procs, fileObs, stdinObs, nvmObs,
                   whichObs, cliObs, run, first, response>>

NextExtract == ExtractCall

ExtractSpec == InitExtract /\ [][NextExtract]_vars

----------------------------------------------------------------------------
(* Properties of one run (Spec) *)

Done == pc = "done"

Parsed == ParseOutcome(argv) = "ok"

\* the prompt the run acquired is empty or white space only, or the file
\* named by --file is missing
AcquiredEmptyOrMissing ==
    \/ argv.prompt # <<>> /\ Strip(argv.prompt[1]) = <<>>
    \/ /\ argv.file # <<>>
       /\ fileObs # <<>>
       /\ \/ fileObs[1].kind = "missing"
          \/ fileObs[1].kind = "text" /\ Strip(fileObs[1].text) = <<>>
    \/ argv.stdin /\ stdinObs # <<>> /\ Strip(stdinObs[1]) = <<>>

IsErrorLine(line) ==
    line[1] \in {"ERROR: Empty prompt", "ERROR: File not found: ",
                 "Traceback (most recent call last):"}

HasTraceback ==
    \E i \in 1..Len(stderr) : stderr[i][1] = "Traceback (most recent call last):"

\* C1: a run whose acquired prompt is empty or white space only, or whose
\* input file is missing, ends with exit status 1, has an error on the error
\* stream, has printed nothing on the output stream and has started no
\* external process (neither the `which` lookup nor the CLI).
C1_EmptyPromptFailsFast ==
    (Done /\ Parsed /\ AcquiredEmptyOrMissing) =>
        /\ exitStatus = <<1>>
        /\ \E i \in 1..Len(stderr) : IsErrorLine(stderr[i])
        /\ stdout = <<>>
        /\ procs = <<>>
        /\ result = <<>>

C1_Witness ==
    /\ Done
    /\ Parsed
    /\ AcquiredEmptyOrMissing
    /\ argv.stdin
    /\ stdinObs = << <<" ">> >>
    /\ stderr = << <<"ERROR: Empty prompt">> >>

Succeeded == result # <<>> /\ result[1].success

C3_ExplicitTimeoutWins ==
    timeout # <<>> =>
        timeout[1] = IF argv.timeout # <<>> THEN argv.timeout[1]
                     ELSE IF argv.think = <<>> THEN 120
                     ELSE IF argv.think[1] = "high" THEN 180 ELSE 60

PassesModel(command, m) ==
    \E j \in 1..(Len(command) - 1) : command[j] = "--model" /\ command[j + 1] = m

\* C4: the CLI is started with --model <the --model value> when --model is
\* given, with --model <the fixed default> when it is absent and thinking
\* mode is off, and with no --model argument when it is absent and thinking
\* mode is on.
C4_ModelSelection ==
    \A i \in 1..Len(procs) :
        procs[i].kind = "cli" =>
            IF argv.model # <<>> THEN PassesModel(procs[i].cmd, argv.model[1])
            ELSE IF argv.think = <<>> THEN PassesModel(procs[i].cmd, DEFAULT_MODEL)
            ELSE \A j \in 1..Len(procs[i].cmd) : procs[i].cmd[j] # "--model"

\* t is s without its leading and trailing white space
IsTrimOf(t, s) ==
    \E i \in 0..Len(s) :
        /\ i + Len(t) <= Len(s)
        /\ SubSeq(s, i + 1, i + Len(t)) = t
        /\ \A k \in 1..i : s[k] = " "
        /\ \A k \in (i + Len(t) + 1)..Len(s) : s[k] = " "
        /\ t # <<>> => (t[1] # " " /\ t[Len(t)] # " ")

\* C5: the record call_gemini returns is decided by how the subprocess
\* ended: exit 0 gives success, the trimmed stdout and an empty error; a
\* non-zero exit gives failure, the raw stdout and the raw stderr; a timeout
\* gives failure, an empty output and an error naming the timeout passed.
\* The measured duration is recorded in each case, and a success never
\* carries an error.
C5_ResultDeterminedByOutcome ==
    (result # <<>> /\ cliObs # <<>>) =>
        LET r == result[1]
            o == cliObs[1]
        IN  /\ (o.kind = "exit" /\ o.rc = 0) =>
                   (r.success /\ IsTrimOf(r.output, o.out) /\ r.error = <<>>)
            /\ (o.kind = "exit" /\ o.rc # 0) =>
                   (~r.success /\ r.output = o.out /\ r.error = o.err)
            /\ o.kind = "timeout" =>
                   /\ ~r.success
                   /\ r.output = <<>>
                   /\ \E k \in 1..Len(r.error) : r.error[k] = ToString(timeout[1])
            /\ r.duration = o.elapsed
            /\ r.success => r.error = <<>>

C5_Witness ==
    /\ result # <<>>
    /\ cliObs # <<>>
    /\ cliObs[1].kind = "exit"
    /\ cliObs[1].rc = 0
    /\ result[1].output # <<>>
    /\ result[1].output # cliObs[1].out

\* the executable could not be resolved or launched
LaunchFailed ==
    \/ whichObs = <<"cannot_run">>
    \/ cliObs # <<>> /\ cliObs[1].kind = "oserror"

\* C6: a failure to resolve or launch the executable never escapes as an
\* uncaught exception: the run ends with a result record of failure, with an
\* empty output and the failure's description as error, which is rendered,
\* and with exit status 1.
C6_LaunchFailureNeverEscapes ==
    (Done /\ LaunchFailed) =>
        /\ ~HasTraceback
        /\ result # <<>>
        /\ ~result[1].success
        /\ result[1].output = <<>>
        /\ result[1].error # <<>>
        /\ stdout # <<>>
        /\ exitStatus = <<1>>

CountKind(kind) == Cardinality({i \in 1..Len(procs) : procs[i].kind = kind})

CountStarted == Cardinality({i \in 1..Len(procs) : procs[i].started})

\* C10 as stated: at most one external process is started in a run.
C10_SingleExternalProcess == CountStarted <= 1

\* C10 amended: a run starts at most two external processes, at most one
\* `which` lookup followed by at most one CLI invocation, which is never
\* tried again; a process is started only once the prompt has passed
\* validation and while nothing has been printed on the output stream.
C10_LookupThenCliOnce ==
    /\ [](/\ CountKind("cli") <= 1
          /\ CountKind("which") <= 1
          /\ Len(procs) <= 2
          /\ \A i \in 1..Len(procs) : procs[i].kind = "which" => i = 1
          /\ procs # <<>> => (prompt # <<>> /\ Strip(prompt[1]) # <<>>))
    /\ [][procs' # procs => (stdout = <<>> /\ stdout' = <<>>)]_vars

C10_Witness ==
    /\ Done
    /\ Len(procs) = 2
    /\ procs[1].kind = "which" /\ procs[1].started
    /\ procs[2].kind = "cli" /\ procs[2].started
    /\ cliObs[1].kind = "exit" /\ cliObs[1].rc # 0

----------------------------------------------------------------------------
(* Properties of two runs that differ in one flag (PairSpec) *)

\* run 2 has ended, and its command line is that of run 1 but for `flag`
SecondRunDone(flag) ==
    /\ run = 2
    /\ Done
    /\ first # <<>>
    /\ argv = [first[1].argv EXCEPT ![flag] = ~@]

\* a result record without its extracted_json field
Core(res) == IF res = <<>> THEN <<>> ELSE <<[res[1] EXCEPT !.extracted_json = <<>>]>>

IsDebugLine(line) ==
    line[1] \in {"[DEBUG] Thinking mode: ", "[DEBUG] Model: ", "[DEBUG] Timeout: ",
                 "[DEBUG] Prompt length: "}

IsNotDebugLine(line) == ~IsDebugLine(line)

\* C8: two runs that differ only in --verbose print the same on the output
\* stream and end with the same exit status; on the error stream they differ
\* only by debug lines, which the run without --verbose does not print.
C8_VerboseOnlyAddsDiagnostics ==
    SecondRunDone("verbose") =>
        /\ stdout = first[1].stdout
        /\ exitStatus = first[1].exitStatus
        /\ SelectSeq(stderr, IsNotDebugLine) = SelectSeq(first[1].stderr, IsNotDebugLine)
        /\ ~argv.verbose => SelectSeq(stderr, IsNotDebugLine) = stderr
        /\ argv.verbose => SelectSeq(first[1].stderr, IsNotDebugLine) = first[1].stderr

C8_Witness ==
    /\ SecondRunDone("verbose")
    /\ argv.verbose
    /\ stdout # <<>>
    /\ Len(stderr) > Len(first[1].stderr)
    /\ exitStatus = <<0>>

----------------------------------------------------------------------------
(* Properties of extract_json_from_response (ExtractSpec) *)

Substrings(s) == {SubSeq(s, a, b) : a \in 1..(Len(s) + 1), b \in 0..Len(s)}

\* b is the trimmed contents of the first fenced block tagged json of s: the
\* text between the first opening fence and the nearest fence after it
IsFirstJsonBlock(s, b) ==
    \E i \in 1..Len(s), j \in 1..Len(s) :
        /\ i < j
        /\ s[i] = "F"
        /\ \A k \in 1..(i - 1) : s[k] # "F"
        /\ s[j] \in {"F", "E"}
        /\ \A k \in (i + 1)..(j - 1) : s[k] \notin {"F", "E"}
        /\ IsTrimOf(b, SubSeq(s, i + 1, j - 1))

ParseableBlocks(s) ==
    {b \in Substrings(s) : IsFirstJsonBlock(s, b) /\ JsonLoads(b).ok}

====
